---- MODULE Spec2Model ----
(***************************************************************************)
(* EmulatorLauncher: the emulator registry (emulators.py) and the game     *)
(* library (emulator_launcher.py).                                         *)
(*                                                                         *)
(* Directory entry names and display names are strings.  The names of the  *)
(* files in 'rom zips' are sequences of tokens, "." being the extension    *)
(* separator and every other token a run of characters without a dot, so   *)
(* that os.path.splitext is computed and not assumed.  The content of a    *)
(* file is the token sequence naming where it came from.                   *)
(***************************************************************************)
EXTENDS Integers, Sequences, FiniteSets, TLC

VARIABLES
    romZips,      \* the files of the directory 'rom zips'
    emuDir,       \* emulator id -> its directory: entry name -> node
    games,        \* App.games_frame.games
    windows,      \* the AddGame windows created so far
    pc,           \* position of App.__init__ / the main loop
    emuIndex,     \* check_emu_versions: index in Emulators.ALL of the next emulator
    outdated,     \* check_emu_versions: the local list 'outdated'
    probed,       \* history: the (installed, latest, emulator) tuples computed so far
    emuOutdated,  \* the labels of the EmuOutdated window, or NoWindow
    last          \* history: the handler that ran last, with its inputs and outcome

vars == <<romZips, emuDir, games, windows, pc, emuIndex, outdated, probed,
          emuOutdated, last>>

-----------------------------------------------------------------------------
(* Bounds *)

\* AddGame windows that may be opened from the menu
MaxWindows == 2
\* lines of output of an emulator binary asked for its version
MaxLines == 2
\* tokens on one line of that output
MaxTokens == 2

-----------------------------------------------------------------------------
(* emulators.py *)

\* Python's None, where an emulator is expected
None == [id |-> "", ext |-> "", gh_path |-> "", none |-> TRUE]

Emulator(sid, ext, gh_path) ==
    [id |-> sid, ext |-> ext, gh_path |-> gh_path, none |-> FALSE]

MGBA == Emulator("mgba", "gba", "mgba-emu/mgba")
DOLPHIN == Emulator("dolphin", "rvz", "")
MELONDS == Emulator("melonds", "nds", "melonDS-emu/melonDS")
AZAHAR == Emulator("azahar", "cci", "azahar-emu/azahar")

\* the mutant of ALL: two emulators registered for the same extension
ALL_shared_ext == <<MGBA, Emulator("dolphin", "gba", ""), MELONDS, AZAHAR>>

ALL == <<MGBA, DOLPHIN, MELONDS, AZAHAR>>

EmuIds == {ALL[i].id : i \in 1..Len(ALL)}

RECURSIVE from_ext_scan(_, _)
from_ext_scan(ext, i) ==
    IF i > Len(ALL) THEN None
    ELSE IF ALL[i].ext = ext THEN ALL[i]
    ELSE from_ext_scan(ext, i + 1)

\* the mutant of from_ext: an unknown extension falls back to the first emulator
from_ext_default_first(ext) ==
    IF from_ext_scan(ext, 1) = None THEN ALL[1] ELSE from_ext_scan(ext, 1)

from_ext(ext) == from_ext_scan(ext, 1)

\* a call either returns a value or raises
Return(v) == [ok |-> TRUE, value |-> v]
Raise == [ok |-> FALSE, value |-> ""]

\* the words a version output is made of
VersionTokens == {"1.0", "1.1"}
\* the tag names the release feed may answer
LatestTags == {"1.1"}

SeqsUpTo(S, n) == UNION {[1..k -> S] : k \in 0..n}

\* what os.popen(...).read() may give: lines of whitespace-separated words; the
\* empty output is one empty line
Outputs == {o \in SeqsUpTo(SeqsUpTo(VersionTokens, MaxTokens), MaxLines) : Len(o) >= 1}

\* what the release feed may do: fail (no connection, no JSON body), or answer a
\* JSON object with or without the key tag_name
Responses ==
    {[kind |-> "error", body |-> [message |-> ""]]}
    \cup {[kind |-> "json", body |-> [message |-> "Not Found"]]}
    \cup {[kind |-> "json", body |-> [tag_name |-> t]] : t \in LatestTags}

\* str.split(): the words of all the lines
RECURSIVE split(_)
split(v_out) == IF v_out = <<>> THEN <<>> ELSE Head(v_out) \o split(Tail(v_out))

\* seq[i] of Python, 0-based, raising IndexError past the end
Index(seq, i) == IF i + 1 <= Len(seq) THEN Return(seq[i + 1]) ELSE Raise

installed_version(emu, v_out) ==
    CASE emu.id = "mgba" -> Index(split(v_out), 1)
      [] emu.id = "dolphin" -> Return("auto")
      [] emu.id = "melonds" -> Index(v_out[1], 1)
      [] emu.id = "azahar" -> Index(split(v_out), 1)
      [] OTHER -> Return("0")

latest_version(emu, response) ==
    IF emu.id = "dolphin" THEN Return("auto")
    ELSE IF response.kind = "error" THEN Raise
    ELSE IF "tag_name" \in DOMAIN response.body THEN Return(response.body.tag_name)
    ELSE Raise

-----------------------------------------------------------------------------
(* Strings and the filesystem *)

\* the strings that name directory entries, in the order of Python's str
\* comparison (by code point: "" first, "." before letters, upper case before
\* lower case)
StrOrder ==
    <<"", "Pokemon", "azahar", "azahar.png", "dolphin", "dolphin.png",
      "melonds", "melonds.png", "mgba", "mgba.config", "mgba.home", "mgba.png",
      "readme.txt">>

StrRank(s) == CHOOSE i \in 1..Len(StrOrder) : StrOrder[i] = s

\* ''.join(tokens)
RECURSIVE Join(_)
Join(tokens) == IF tokens = <<>> THEN "" ELSE Head(tokens) \o Join(Tail(tokens))

\* seq[1:]
Slice1(seq) == IF seq = <<>> THEN <<>> ELSE Tail(seq)

\* p.rfind('.'), 1-based, 0 when there is none
LastDot(p) ==
    IF \E i \in 1..Len(p) : p[i] = "."
    THEN CHOOSE i \in 1..Len(p) : p[i] = "." /\ \A j \in (i + 1)..Len(p) : p[j] # "."
    ELSE 0

\* os.path.splitext of a name without directory separator: the extension starts
\* at the last dot, unless only dots come before it
splitext(p) ==
    LET dotIndex == LastDot(p) IN
    IF dotIndex > 0 /\ \E k \in 1..(dotIndex - 1) : p[k] # "."
    THEN <<SubSeq(p, 1, dotIndex - 1), SubSeq(p, dotIndex, Len(p))>>
    ELSE <<p, <<>>>>

File(data) == [kind |-> "file", files |-> <<>>, data |-> data]
Dir(files) == [kind |-> "dir", files |-> files, data |-> <<>>]

\* the mutant of mkdir: an existing directory is accepted (exist_ok)
mkdir_exist_ok(dirs, id, name) ==
    IF name = "" THEN [ok |-> FALSE, dirs |-> dirs]
    ELSE IF name \in DOMAIN dirs[id]
    THEN [ok |-> dirs[id][name].kind = "dir", dirs |-> dirs]
    ELSE [ok |-> TRUE, dirs |-> [dirs EXCEPT ![id] = (name :> Dir(<<>>)) @@ @]]

\* os.mkdir(os.path.join(id, name)): FileExistsError when the path exists; the
\* empty name joins to 'id/', the emulator directory itself
mkdir(dirs, id, name) ==
    IF name = "" \/ name \in DOMAIN dirs[id]
    THEN [ok |-> FALSE, dirs |-> dirs]
    ELSE [ok |-> TRUE, dirs |-> [dirs EXCEPT ![id] = (name :> Dir(<<>>)) @@ @]]

\* os.rename('rom zips/' + file, os.path.join(id, name, target)):
\* FileNotFoundError when the source is gone; an existing target is replaced
rename(roms, dirs, file, id, name, target) ==
    IF file \notin roms
    THEN [ok |-> FALSE, roms |-> roms, dirs |-> dirs]
    ELSE [ok |-> TRUE, roms |-> roms \ {file},
          dirs |-> [dirs EXCEPT ![id][name].files = (target :> file) @@ @]]

\* Image.open(...).save(os.path.join(id, name, 'icon.png'))
save_icon(dirs, id, name) ==
    [dirs EXCEPT ![id][name].files = ("icon.png" :> <<"png">>) @@ @]

RECURSIVE Ascending(_)
Ascending(S) ==
    IF S = {} THEN <<>>
    ELSE LET m == CHOOSE x \in S : \A y \in S : StrRank(x) <= StrRank(y)
         IN <<m>> \o Ascending(S \ {m})

Reverse(seq) == [i \in 1..Len(seq) |-> seq[Len(seq) + 1 - i]]

\* the orders os.listdir may list a directory in: it promises none
ListingOrders == {"ascending", "descending"}

os_listdir(dirs, dir_name, order) ==
    IF order = "ascending" THEN Ascending(DOMAIN dirs[dir_name])
    ELSE Reverse(Ascending(DOMAIN dirs[dir_name]))

-----------------------------------------------------------------------------
(* emulator_launcher.py *)

\* WrappingFrame.__init__ reached from load_games: the frame held before, if any,
\* is destroyed and the new frame holds no game
NewFrame(old) == <<>>

\* WrappingFrame.clear
clear(frame) == <<>>

RECURSIVE Insert(_, _)
Insert(sorted, g) ==
    IF sorted = <<>> THEN <<g>>
    ELSE IF StrRank(g.name) < StrRank(Head(sorted).name) THEN <<g>> \o sorted
    ELSE <<Head(sorted)>> \o Insert(Tail(sorted), g)

\* WrappingFrame.sort: list.sort(key = name), which is stable
RECURSIVE sort(_)
sort(frame) ==
    IF frame = <<>> THEN <<>>
    ELSE Insert(sort(SubSeq(frame, 1, Len(frame) - 1)), frame[Len(frame)])

\* Game.__init__: the fields the library uses
Game(name, emulator) ==
    [name |-> name, emulator |-> emulator,
     path |-> <<emulator.id, name, "game." \o emulator.ext>>]

Reserved(app_name) ==
    {app_name, app_name \o ".config", app_name \o ".home", app_name \o ".png"}

\* App.listdir, app_name defaulting to dir_name
listdir(dirs, dir_name, order) ==
    LET app_name == dir_name IN
    SelectSeq(os_listdir(dirs, dir_name, order), LAMBDA d : d \notin Reserved(app_name))

RECURSIVE AppendGames(_, _, _)
AppendGames(frame, names, emu) ==
    IF names = <<>> THEN frame
    ELSE AppendGames(Append(frame, Game(Head(names), emu)), Tail(names), emu)

RECURSIVE LoadFrom(_, _, _, _)
LoadFrom(frame, i, dirs, order) ==
    IF i > Len(ALL) THEN frame
    ELSE LoadFrom(AppendGames(frame, listdir(dirs, ALL[i].id, order), ALL[i]),
                  i + 1, dirs, order)

\* the mutant of load_games: the games found are added to the frame held before
load_games_incremental(old, dirs, order) == sort(LoadFrom(old, 1, dirs, order))

\* App.load_games: the list of games it leaves in games_frame
load_games(old, dirs, order) == sort(LoadFrom(clear(NewFrame(old)), 1, dirs, order))

\* AddGame.game_choice (as the set of the values offered)
Placeholder == <<>>

game_choice(roms) ==
    LET choice == {f \in roms : Join(splitext(f)[2]) \notin {".zip", ".7z"}} IN
    IF choice = {} THEN {Placeholder} ELSE choice

\* the text of one label of the EmuOutdated window
Label(installed, latest, emulator) ==
    emulator.id \o " is outdated! installed: " \o installed \o " latest: " \o latest

NoWindow == [shown |-> FALSE, labels |-> <<>>]

\* EmuOutdated.__init__
EmuOutdated(outdatedList) ==
    [shown |-> TRUE,
     labels |-> [i \in 1..Len(outdatedList) |->
                    Label(outdatedList[i][1], outdatedList[i][2], outdatedList[i][3])]]

-----------------------------------------------------------------------------
(* The inputs *)

PokemonGba == <<"pokemon", ".", "gba">>
MarioNds == <<"mario", ".", "nds">>
UpperGba == <<"rom", ".", "GBA">>
DotGba == <<".", "gba">>
NotesTxt == <<"notes", ".", "txt">>
PackZip == <<"pack", ".", "zip">>

\* what 'rom zips' may hold when the program starts
InitRomZips ==
    {{PackZip}, {PokemonGba, MarioNds}, {PokemonGba, UpperGba, DotGba, NotesTxt}}

\* what the user may type as the name of a game: the empty name, a name that may
\* already be taken, and a name App.listdir reserves for mgba (names holding a
\* directory separator are left out)
DisplayNames == {"", "Pokemon", "mgba.home"}

\* an emulator directory as installed: the binary and the icon that
\* Emulator.__init__ opens
Installed(id) == (id :> File(<<"bin">>)) @@ ((id \o ".png") :> File(<<"png">>))

\* what else the mgba directory may hold when the program starts
InitExtras ==
    ("mgba.config" :> Dir(<<>>))
    @@ ("Pokemon" :> Dir(("game.gba" :> <<"old", ".", "gba">>) @@ ("icon.png" :> <<"png">>)))
    @@ ("readme.txt" :> File(<<"txt">>))

Restrict(f, S) == [x \in S |-> f[x]]

\* the handler that ran last
Event(op, file, name, icon_ok, emu, outcome) ==
    [op |-> op, file |-> file, name |-> name,
     icon_ok |-> icon_ok, emu |-> emu, outcome |-> outcome]

Ran(op, outcome) == Event(op, Placeholder, "", FALSE, None, outcome)

-----------------------------------------------------------------------------
(* The program *)

Init ==
    /\ romZips \in InitRomZips
    /\ \E S \in SUBSET DOMAIN InitExtras :
          emuDir = [id \in EmuIds |->
                       IF id = "mgba" THEN Installed(id) @@ Restrict(InitExtras, S)
                       ELSE Installed(id)]
    /\ games = <<>>
    /\ windows = <<>>
    /\ pc = "start"
    /\ emuIndex = 1
    /\ outdated = <<>>
    /\ probed = <<>>
    /\ emuOutdated = NoWindow
    /\ last = Ran("none", "none")

\* App.__init__, line 208: the games are loaded before anything else
startup_load_games ==
    /\ pc = "start"
    /\ \E order \in ListingOrders : games' = load_games(games, emuDir, order)
    /\ pc' = "check"
    /\ emuIndex' = 1
    /\ outdated' = <<>>
    /\ last' = Ran("load_games", "loaded")
    /\ UNCHANGED <<romZips, emuDir, windows, probed, emuOutdated>>

\* check_emu_versions, one turn of its loop: an exception of either probe leaves
\* the loop, check_emu_versions and App.__init__
check_emu_versions_probe ==
    /\ pc = "check"
    /\ emuIndex <= Len(ALL)
    /\ \E v_out \in Outputs, response \in Responses :
          LET emu == ALL[emuIndex]
              installed == installed_version(emu, v_out)
              latest == latest_version(emu, response)
          IN  IF installed.ok /\ latest.ok
              THEN /\ outdated' = IF installed.value # latest.value
                                  THEN Append(outdated, <<installed.value, latest.value, emu>>)
                                  ELSE outdated
                   /\ probed' = Append(probed, <<installed.value, latest.value, emu>>)
                   /\ emuIndex' = emuIndex + 1
                   /\ pc' = "check"
                   /\ last' = Ran("check_emu_versions", "probed")
              ELSE /\ pc' = "crashed"
                   /\ last' = Ran("check_emu_versions", "raised")
                   /\ UNCHANGED <<outdated, probed, emuIndex>>
    /\ UNCHANGED <<romZips, emuDir, games, windows, emuOutdated>>

\* check_emu_versions, after its loop; then App.__init__ enters the main loop
check_emu_versions_report ==
    /\ pc = "check"
    /\ emuIndex > Len(ALL)
    /\ emuOutdated' = IF outdated # <<>> THEN EmuOutdated(outdated) ELSE NoWindow
    /\ pc' = "mainloop"
    /\ last' = Ran("check_emu_versions", "done")
    /\ UNCHANGED <<romZips, emuDir, games, windows, emuIndex, outdated, probed>>

\* the menu command 'Add Game': AddGame.__init__
open_add_game ==
    /\ pc = "mainloop"
    /\ Len(windows) < MaxWindows
    /\ windows' = Append(windows, [values |-> game_choice(romZips), state |-> "normal"])
    /\ last' = Ran("AddGame", "opened")
    /\ UNCHANGED <<romZips, emuDir, games, pc, emuIndex, outdated, probed, emuOutdated>>

\* the extension add_game computes from the file chosen
ExtOf(file) == Join(Slice1(splitext(file)[2]))

\* the button 'Add Game' of window w: AddGame.add_game.  An exception leaves
\* the handler (Tk reports it and the main loop goes on); whether the icon can
\* be fetched is asked only once the file has been moved
add_game(w, file, name) ==
    /\ pc = "mainloop"
    /\ windows[w].state = "normal"
    /\ LET ext == ExtOf(file)
           emu == from_ext(ext)
           made == mkdir(emuDir, emu.id, name)
           moved == rename(romZips, made.dirs, file, emu.id, name, "game." \o ext)
       IN  IF emu = None
           THEN /\ last' = Event("add_game", file, name, FALSE, emu, "unsupported")
                /\ UNCHANGED <<romZips, emuDir, games, windows>>
           ELSE IF ~made.ok
           THEN /\ last' = Event("add_game", file, name, FALSE, emu, "mkdir raised")
                /\ UNCHANGED <<romZips, emuDir, games, windows>>
           ELSE IF ~moved.ok
           THEN /\ emuDir' = made.dirs
                /\ last' = Event("add_game", file, name, FALSE, emu, "rename raised")
                /\ UNCHANGED <<romZips, games, windows>>
           ELSE \E icon_ok \in BOOLEAN, order \in ListingOrders :
                  LET saved == IF icon_ok THEN save_icon(moved.dirs, emu.id, name)
                               ELSE moved.dirs
                  IN  /\ romZips' = moved.roms
                      /\ emuDir' = saved
                      /\ games' = load_games(games, saved, order)
                      /\ windows' = [windows EXCEPT ![w].state = "withdrawn"]
                      /\ last' = Event("add_game", file, name, icon_ok, emu, "added")
    /\ UNCHANGED <<pc, emuIndex, outdated, probed, emuOutdated>>

click_add_game ==
    \E w \in DOMAIN windows :
       \E file \in windows[w].values, name \in DisplayNames : add_game(w, file, name)

Next ==
    \/ startup_load_games
    \/ check_emu_versions_probe
    \/ check_emu_versions_report
    \/ open_add_game
    \/ click_add_game

Spec == Init /\ [][Next]_vars

\* the same program started on an mgba directory that holds nothing but the
\* installation and game directories
InitGamesOnly == Init /\ \A n \in DOMAIN emuDir["mgba"] : n # "readme.txt"

SpecGamesOnly == InitGamesOnly /\ [][Next]_vars

-----------------------------------------------------------------------------
(* The properties *)

\* the extensions a chosen file may have
Extensions == {"", "gba", "GBA", "nds", "rvz", "cci", "txt", "zip", "7z"}

Registered(ext) == \E i \in 1..Len(ALL) : ALL[i].ext = ext

\* a load_games has just run
Rebuilt == last.outcome \in {"loaded", "added"}

\* the position of an emulator in the registry
Position(emu) == CHOOSE i \in 1..Len(ALL) : ALL[i].id = emu.id

\* the (installed, latest, emulator) tuples computed whose versions differ
Mismatches == SelectSeq(probed, LAMBDA t : t[1] # t[2])

\* App.__init__ is past check_emu_versions
PassEnded == pc \in {"mainloop", "crashed"}

\* C1: add_game on a file whose extension no registered emulator has (the
\* placeholder choice included) returns at once: 'rom zips', the emulator
\* directories and the list of games are what they were.
C1_UnsupportedChangesNothing ==
    [][(last'.op = "add_game" /\ ~Registered(ExtOf(last'.file)))
          => (last'.outcome = "unsupported" /\ UNCHANGED <<romZips, emuDir, games>>)]_vars

C1_Witness ==
    /\ last.op = "add_game"
    /\ last.file = Placeholder
    /\ last.outcome = "unsupported"

\* C2: whenever add_game has made the directory and moved the file and the icon
\* could not be fetched, the game file is at id/name/game.ext and the list of
\* games rebuilt holds an entry of that name bound to the emulator of the
\* extension.
C2_IconFailureKeepsGame ==
    (last.op = "add_game" /\ last.outcome = "added" /\ ~last.icon_ok)
        => /\ last.name \in DOMAIN emuDir[last.emu.id]
           /\ ("game." \o ExtOf(last.file)) \in DOMAIN emuDir[last.emu.id][last.name].files
           /\ emuDir[last.emu.id][last.name].files["game." \o ExtOf(last.file)] = last.file
           /\ \E i \in DOMAIN games :
                 /\ games[i].name = last.name
                 /\ games[i].emulator.ext = ExtOf(last.file)

\* C3: when the move of add_game fails after the directory was made, nothing is
\* left of the call: the directory is gone again, 'rom zips' is what it was, and
\* so are the emulator directories.
C3_FailedMoveLeavesNothing ==
    [][(last'.op = "add_game" /\ last'.outcome = "rename raised")
          => /\ last'.name \notin DOMAIN emuDir'[last'.emu.id]
             /\ UNCHANGED <<romZips, emuDir>>]_vars

\* C4: the version check ends only after it has examined every registered
\* emulator, whatever the probes did.
C4_PassExaminesEveryEmulator == PassEnded => emuIndex > Len(ALL)

\* C5: after a rebuild the games bound to an emulator are exactly the
\* subdirectories of its directory whose names are not reserved, one entry each.
C5_EntriesAreTheSubdirectories ==
    Rebuilt =>
       \A k \in 1..Len(ALL) :
          LET id == ALL[k].id
              entries == {i \in DOMAIN games : games[i].emulator = ALL[k]}
              subdirs == {n \in DOMAIN emuDir[id] \ Reserved(id) : emuDir[id][n].kind = "dir"}
          IN  /\ {games[i].name : i \in entries} = subdirs
              /\ Cardinality(entries) = Cardinality(subdirs)

\* C6: the path of every game in the list names a file that exists.
C6_GamePathExists ==
    \A i \in DOMAIN games :
       LET g == games[i] IN
       /\ g.path[2] \in DOMAIN emuDir[g.path[1]]
       /\ emuDir[g.path[1]][g.path[2]].kind = "dir"
       /\ g.path[3] \in DOMAIN emuDir[g.path[1]][g.path[2]].files

\* C7: once the version check has ended, the EmuOutdated window shows one label
\* for each emulator whose versions differ, in order, and there is no window when
\* none differ.
C7_ReportsExactlyTheMismatches ==
    PassEnded =>
       emuOutdated = IF Mismatches = <<>> THEN NoWindow
                     ELSE [shown |-> TRUE,
                           labels |-> [i \in 1..Len(Mismatches) |->
                                          Label(Mismatches[i][1], Mismatches[i][2],
                                                Mismatches[i][3])]]

\* C8: after a rebuild the list of games is determined by the directories alone:
\* its entries are the unreserved names of each emulator directory, none of them
\* twice, ordered by name and, for equal names, by the order of the registry.
C8_CatalogFromFilesystemOnly ==
    Rebuilt =>
       /\ {<<games[i].emulator.id, games[i].name>> : i \in DOMAIN games}
             = UNION {{<<ALL[k].id, n>> : n \in DOMAIN emuDir[ALL[k].id] \ Reserved(ALL[k].id)}
                         : k \in 1..Len(ALL)}
       /\ \A i, j \in DOMAIN games :
             i < j => \/ StrRank(games[i].name) < StrRank(games[j].name)
                      \/ /\ games[i].name = games[j].name
                         /\ Position(games[i].emulator) < Position(games[j].emulator)

C8_Witness ==
    /\ last.outcome = "added"
    /\ \E i, j \in DOMAIN games :
          /\ games[i].name = games[j].name
          /\ games[i].emulator = MGBA
          /\ games[j].emulator = MELONDS

\* C9: from_ext of the extension of a registered emulator is that emulator, and
\* from_ext of an extension no emulator has is None; so is what add_game resolved.
C9_FromExtRoundTrip ==
    /\ \A i \in 1..Len(ALL) : from_ext(ALL[i].ext) = ALL[i]
    /\ \A ext \in Extensions : ~Registered(ext) => from_ext(ext) = None
    /\ last.op = "add_game" =>
          \/ ~Registered(ExtOf(last.file)) /\ last.emu = None
          \/ last.emu \in {ALL[i] : i \in 1..Len(ALL)} /\ last.emu.ext = ExtOf(last.file)

C9_Witness ==
    /\ last.op = "add_game"
    /\ last.emu = MELONDS
    /\ last.outcome = "added"

\* C10: add_game with a name whose directory exists (the empty name is the
\* emulator directory itself) fails at mkdir: the emulator directories, the game
\* and icon files in them, and 'rom zips' are what they were.
C10_ExistingGameUntouched ==
    [][(/\ last'.op = "add_game"
        /\ Registered(ExtOf(last'.file))
        /\ \/ last'.name = ""
           \/ last'.name \in DOMAIN emuDir[last'.emu.id])
          => (last'.outcome = "mkdir raised" /\ UNCHANGED <<romZips, emuDir, games>>)]_vars

C10_Witness ==
    /\ last.op = "add_game"
    /\ last.outcome = "mkdir raised"
    /\ last.name = "Pokemon"
    /\ last.file = PokemonGba
    /\ PokemonGba \in romZips
    /\ emuDir["mgba"]["Pokemon"].files["game.gba"] = <<"old", ".", "gba">>

====
